---- MODULE Spec2Model ----
(***************************************************************************)
(* cryptolens: indicator scoring, strategy exposure, portfolio simulation, *)
(* trade log and the backtest entry points.                                *)
(*                                                                         *)
(* Numbers.  Floats are fixed-point integers: ratios (returns, scores,     *)
(* %B, weights) in thousandths, money in thousandths of a currency unit,   *)
(* trade returns in millionths, closes in ten-millionths of a currency     *)
(* unit.  RSI, the sentiment index and the MACD histogram are whole        *)
(* numbers.  NaN is a value of its own: every comparison with it is false  *)
(* and arithmetic propagates it, as in IEEE floats and pandas.             *)
(*                                                                         *)
(* The `ta` library (RSI, MACD, Bollinger, SMA) is not part of the         *)
(* repository: its per-date outputs are inputs of the model.               *)
(***************************************************************************)
EXTENDS Integers, Sequences, FiniteSets, TLC

VARIABLES
    pc,               \* position of BacktestEngine.run
    strategy,         \* key of STRATEGY_MAP chosen by the request
    ta,               \* per date: the ta library's outputs for prices
    fear_greed,       \* fetch_fear_greed's frame: readings [date, value] by date, <<>> when the fetch failed
    close,            \* prices["close"], one per date
    initial_capital,  \* request field, thousandths of a currency unit
    commission,       \* request field, thousandths
    slippage,         \* request field, thousandths
    bench,            \* benchmark closes per date (<<>>: the benchmark fetch failed)
    signals_df,       \* _compute_all_signals' frame
    raw_signals,      \* strategy.generate_signals' exposure per date
    portfolio,        \* _simulate_portfolio's frame, one record per date
    result,           \* the BacktestResponse of the run
    error,            \* the exception that ended the run, "none" otherwise
    db_coins,         \* cl_coins: the coingecko ids that have a Coin row
    db_rows,          \* cl_coin_prices: per coin, the number of daily rows (dates 1..k)
    request,          \* the call of an entry point that is being served
    response,         \* its HTTP response
    class_params,     \* per strategy class, the dict its class attribute `params` names
    returned,         \* the BacktestResult objects the runs so far returned
    touched,          \* the result a caller edited in the latest step, 0 for none
    db_signals,       \* cl_coin_signals: the stored signal rows
    coin_table,       \* cl_coins as the concurrent callers see it: the Coin rows, in insertion order
    procs             \* per concurrent caller of get_or_create_coin: where it is and what it holds

stageVars == <<pc, strategy, ta, fear_greed, close, initial_capital, commission, slippage, bench,
               signals_df, raw_signals, portfolio, result, error>>

apiVars == <<db_coins, db_rows, request, response>>

heapVars == <<class_params, returned, touched>>

tableVars == <<db_signals, coin_table, procs>>

vars == <<stageVars, apiVars, heapVars, tableVars>>

----------------------------------------------------------------------------
\* Bounds and input sets

\* dates per series
MaxLen == 3

\* longest stored price history, in days
MaxRows == 32

\* results kept by the callers of the engine
MaxRuns == 3

Dates == 1..MaxLen

\* fixed-point unit: 1.0
Unit == 10 * 100

NaN == 0 - 999999


IsNaN(x) == x = NaN

\* IEEE comparisons: false when either side is NaN
Gt(x, y) == x # NaN /\ y # NaN /\ x > y

Lt(x, y) == x # NaN /\ y # NaN /\ x < y

\* a / b for b > 0, rounded to the nearest integer (ties away from zero)
RDiv(a, b) == IF a >= 0 THEN (2 * a + b) \div (2 * b) ELSE 0 - ((2 * (0 - a) + b) \div (2 * b))

Abs(x) == IF x < 0 THEN 0 - x ELSE x

NAdd(x, y) == IF x = NaN \/ y = NaN THEN NaN ELSE x + y

\* x * w for a fixed-point factor w
NScale(x, w) == IF x = NaN THEN NaN ELSE RDiv(x * w, Unit)

\* Series.fillna(v), one element
FillNa(x, v) == IF x = NaN THEN v ELSE x

\* Series.clip(lo, hi), one element: NaN stays NaN
Clip(x, lo, hi) == IF x = NaN THEN NaN ELSE IF x < lo THEN lo ELSE IF x > hi THEN hi ELSE x

SetMax(S) == CHOOSE m \in S : \A x \in S : x <= m

SetMin(S) == CHOOSE m \in S : \A x \in S : m <= x

----------------------------------------------------------------------------
\* SignalEngine._compute_composite (signals.py)

WEIGHT_RSI == 250

WEIGHT_MACD == 250

WEIGHT_BB == 200

WEIGHT_FG == 150

MACD_WINDOW == 50

\* lambda of rsi_14: -1 above 70, +1 below 30, else (50 - x) / 50 * 0.5; NaN gives NaN
RsiScore(x) ==
    IF Gt(x, 70) THEN 0 - Unit
    ELSE IF Lt(x, 30) THEN Unit
    ELSE IF x = NaN THEN NaN ELSE (50 - x) * 10

\* a sub-score whose outer pieces include the thresholds
BbScoreInclusive(x) ==
    IF x # NaN /\ x >= 900 THEN 0 - Unit
    ELSE IF x # NaN /\ x <= 100 THEN Unit
    ELSE IF x = NaN THEN NaN ELSE 500 - x

\* lambda of bb_pct (thousandths): -1 above 0.9, +1 below 0.1, else 0.5 - x
BbScore(x) ==
    IF Gt(x, 900) THEN 0 - Unit
    ELSE IF Lt(x, 100) THEN Unit
    ELSE IF x = NaN THEN NaN ELSE 500 - x

\* lambda of fear_greed_index: +1 below 20, -1 above 80, else (50 - x) / 50 * 0.5
FgScore(x) ==
    IF Lt(x, 20) THEN Unit
    ELSE IF Gt(x, 80) THEN 0 - Unit
    ELSE IF x = NaN THEN NaN ELSE (50 - x) * 10

\* macd_norm.abs().rolling(50, min_periods=1).max().replace(0, 1) at date t
MacdMaxVal(hist, t) ==
    LET lo == IF t - MACD_WINDOW + 1 > 1 THEN t - MACD_WINDOW + 1 ELSE 1
        m  == SetMax({Abs(FillNa(hist[i], 0)) : i \in lo..t})
    IN  IF m = 0 THEN 1 ELSE m

\* (macd_norm / max_val).clip(-1, 1) at date t
MacdScore(hist, t) == Clip(RDiv(FillNa(hist[t], 0) * Unit, MacdMaxVal(hist, t)), 0 - Unit, Unit)

\* the scalar `weights`: one addend per column present in the frame
CompositeWeights(df) ==
      (IF "rsi_14" \in df.cols THEN WEIGHT_RSI ELSE 0)
    + (IF "macd_hist" \in df.cols THEN WEIGHT_MACD ELSE 0)
    + (IF "bb_pct" \in df.cols THEN WEIGHT_BB ELSE 0)
    + (IF "fear_greed_index" \in df.cols THEN WEIGHT_FG ELSE 0)

\* the Series `score` at date t after the four `score +=` statements
CompositeSum(df, t) ==
    LET s0 == 0
        s1 == IF "rsi_14" \in df.cols THEN NAdd(s0, NScale(RsiScore(df.rsi_14[t]), WEIGHT_RSI)) ELSE s0
        s2 == IF "macd_hist" \in df.cols THEN NAdd(s1, NScale(MacdScore(df.macd_hist, t), WEIGHT_MACD)) ELSE s1
        s3 == IF "bb_pct" \in df.cols THEN NAdd(s2, NScale(BbScore(df.bb_pct[t]), WEIGHT_BB)) ELSE s2
        s4 == IF "fear_greed_index" \in df.cols
              THEN NAdd(s3, NScale(FgScore(df.fear_greed_index[t]), WEIGHT_FG)) ELSE s3
    IN  s4

\* (score / weights if weights > 0 else score).clip(-1, 1)
ComputeComposite(df) ==
    LET w == CompositeWeights(df)
    IN  [t \in 1..Len(df.rsi_14) |->
           LET s == CompositeSum(df, t)
           IN  Clip(IF w > 0 THEN (IF s = NaN THEN NaN ELSE RDiv(s * Unit, w)) ELSE s,
                    0 - Unit, Unit)]

----------------------------------------------------------------------------
\* SignalEngine._compute_all_signals (signals.py)

\* a missing label
NoLabel == "NaN"

\* a reindex that fills backwards: the value of the earliest reading dated
\* on or after d
ReindexBfill(fgdf, d) ==
    LET after == {i \in 1..Len(fgdf) : fgdf[i].date >= d}
    IN  IF after = {} THEN NaN
        ELSE fgdf[CHOOSE i \in after : \A j \in after : fgdf[j].date >= fgdf[i].date].value

\* fg["label"].reindex(signals.index, method="ffill") at date d
ReindexFfillLabel(fgdf, d) ==
    LET before == {i \in 1..Len(fgdf) : fgdf[i].date <= d}
    IN  IF before = {} THEN NoLabel
        ELSE fgdf[CHOOSE i \in before : \A j \in before : fgdf[j].date <= fgdf[i].date].label

\* fg[...].reindex(signals.index, method="ffill") at date d: the value of the
\* latest reading dated on or before d, NaN when there is none
ReindexFfill(fgdf, d) ==
    LET before == {i \in 1..Len(fgdf) : fgdf[i].date <= d}
    IN  IF before = {} THEN NaN
        ELSE fgdf[CHOOSE i \in before : \A j \in before : fgdf[j].date <= fgdf[i].date].value

\* the columns assigned before the composite score: the sentiment columns only
\* `if not fear_greed.empty`
SignalColumns(fgdf) ==
    {"rsi_14", "macd_hist", "bb_pct", "sma_50", "sma_200"}
        \cup (IF fgdf # <<>> THEN {"fear_greed_index", "fear_greed_label"} ELSE {})

\* the frame built from the ta outputs (one record per date) and the fetched
\* sentiment readings; the sentiment columns exist only for a non-empty fetch
ComputeAllSignals(ind, fgdf) ==
    LET n    == Len(ind)
        base == [cols |-> SignalColumns(fgdf),
                 rsi_14 |-> [t \in 1..n |-> ind[t].rsi_14],
                 macd_hist |-> [t \in 1..n |-> ind[t].macd_hist],
                 bb_pct |-> [t \in 1..n |-> ind[t].bb_pct],
                 sma_50 |-> [t \in 1..n |-> ind[t].sma_50],
                 sma_200 |-> [t \in 1..n |-> ind[t].sma_200],
                 fear_greed_index |-> [t \in 1..n |->
                     IF fgdf # <<>> THEN ReindexFfill(fgdf, t) ELSE NaN],
                 fear_greed_label |-> [t \in 1..n |->
                     IF fgdf # <<>> THEN ReindexFfillLabel(fgdf, t) ELSE NoLabel]]
    IN  [cols |-> base.cols \cup {"composite_score"},
         rsi_14 |-> base.rsi_14, macd_hist |-> base.macd_hist, bb_pct |-> base.bb_pct,
         sma_50 |-> base.sma_50, sma_200 |-> base.sma_200,
         fear_greed_index |-> base.fear_greed_index,
         fear_greed_label |-> base.fear_greed_label,
         composite_score |-> ComputeComposite(base)]


----------------------------------------------------------------------------
\* Strategy definitions (backtester.py)

buy_threshold == 150

sell_threshold == -150

oversold == 30

overbought == 70

extreme_fear_buy == 25

extreme_greed_sell == 75

Variants == {"composite", "rsi", "golden_cross", "fear_greed"}

\* STRATEGY_MAP[key].name
StrategyName(key) ==
    CASE key = "composite" -> "composite"
      [] key = "rsi" -> "rsi_mean_reversion"
      [] key = "golden_cross" -> "golden_cross"
      [] key = "fear_greed" -> "fear_greed_contrarian"

\* the columns of the signals frame generate_signals subscripts
StrategyColumns(key) ==
    CASE key = "composite" -> {"composite_score"}
      [] key = "rsi" -> {"rsi_14"}
      [] key = "golden_cross" -> {"sma_50", "sma_200"}
      [] key = "fear_greed" -> {"fear_greed_index"}

\* the class attribute `params` of each strategy, as the module defines it
StrategyParams(key) ==
    CASE key = "composite" -> [buy_threshold |-> buy_threshold, sell_threshold |-> sell_threshold]
      [] key = "rsi" -> [oversold |-> oversold, overbought |-> overbought]
      [] key = "golden_cross" -> [fast |-> 50, slow |-> 200]
      [] key = "fear_greed" -> [extreme_fear_buy |-> extreme_fear_buy,
                                extreme_greed_sell |-> extreme_greed_sell]

\* Series.ffill() at date t: the latest value at or before t that is not NaN
Ffill(s, t) ==
    LET known == {i \in 1..t : s[i] # NaN}
    IN  IF known = {} THEN NaN ELSE s[SetMax(known)]

\* CompositeScoreStrategy.generate_signals, self.params being `params`
CompositeGenerateWith(df, params) ==
    LET n     == Len(df.composite_score)
        score == [t \in 1..n |-> FillNa(df.composite_score[t], 0)]
        p0    == [t \in 1..n |-> 0]
        p1    == [t \in 1..n |-> IF score[t] > params.buy_threshold THEN 1 ELSE p0[t]]
        p2    == [t \in 1..n |-> IF score[t] < params.sell_threshold THEN 0 ELSE p1[t]]
    IN  [t \in 1..n |-> FillNa(Ffill(p2, t), 0)]

CompositeGenerate(df) == CompositeGenerateWith(df, StrategyParams("composite"))

\* a rule without memory: in position exactly on the dates below the entry level
InPositionNoHold(x, i, enter, exit) == i > 0 /\ x[i] < enter

\* in_position after the loop body ran for dates 1..i
RECURSIVE InPosition(_, _, _, _)
InPosition(x, i, enter, exit) ==
    IF i = 0 THEN FALSE
    ELSE LET prev == InPosition(x, i - 1, enter, exit)
         IN  IF ~prev /\ x[i] < enter THEN TRUE
             ELSE IF prev /\ x[i] > exit THEN FALSE
             ELSE prev

\* a strategy that reads a missing RSI as 0
RsiGenerateFillZero(df, params) ==
    LET n   == Len(df.rsi_14)
        rsi == [t \in 1..n |-> FillNa(df.rsi_14[t], 0)]
    IN  [t \in 1..n |-> IF InPosition(rsi, t, params.oversold, params.overbought) THEN 1 ELSE 0]

\* RSIMeanReversionStrategy.generate_signals, self.params being `params`
RsiGenerateWith(df, params) ==
    LET n   == Len(df.rsi_14)
        rsi == [t \in 1..n |-> FillNa(df.rsi_14[t], 50)]
    IN  [t \in 1..n |-> IF InPosition(rsi, t, params.oversold, params.overbought) THEN 1 ELSE 0]

RsiGenerate(df) == RsiGenerateWith(df, StrategyParams("rsi"))

\* GoldenCrossStrategy.generate_signals
GoldenCrossGenerate(df) ==
    [t \in 1..Len(df.sma_50) |-> IF Gt(df.sma_50[t], df.sma_200[t]) THEN 1 ELSE 0]

\* FearGreedStrategy.generate_signals, self.params being `params`
FearGreedGenerateWith(df, params) ==
    LET n  == Len(df.fear_greed_index)
        fg == [t \in 1..n |-> FillNa(df.fear_greed_index[t], 50)]
    IN  [t \in 1..n |->
           IF InPosition(fg, t, params.extreme_fear_buy, params.extreme_greed_sell) THEN 1 ELSE 0]

FearGreedGenerate(df) == FearGreedGenerateWith(df, StrategyParams("fear_greed"))

\* signals[column] raises KeyError for a column the frame does not have
RaisesKeyError(key, df) == ~(StrategyColumns(key) \subseteq df.cols)

\* strategy.generate_signals(prices, signals_df) for the strategy of `key`,
\* its class's params dict holding `params`
GenerateSignalsWith(key, df, params) ==
    CASE key = "composite" -> CompositeGenerateWith(df, params)
      [] key = "rsi" -> RsiGenerateWith(df, params)
      [] key = "golden_cross" -> GoldenCrossGenerate(df)
      [] key = "fear_greed" -> FearGreedGenerateWith(df, params)

\* strategy.generate_signals(prices, signals_df) for the strategy of `key`
GenerateSignals(key, df) ==
    CASE key = "composite" -> CompositeGenerate(df)
      [] key = "rsi" -> RsiGenerate(df)
      [] key = "golden_cross" -> GoldenCrossGenerate(df)
      [] key = "fear_greed" -> FearGreedGenerate(df)


----------------------------------------------------------------------------
\* BacktestEngine._simulate_portfolio (backtester.py)

\* signals.diff().fillna(signals) at date t: the first date's change is the
\* first exposure itself
PositionChange(sig, t) == IF t = 1 THEN sig[1] ELSE sig[t] - sig[t - 1]

\* close.pct_change().fillna(0) at date t, thousandths
AssetReturn(cl, t) == IF t = 1 THEN 0 ELSE RDiv((cl[t] - cl[t - 1]) * Unit, cl[t - 1])

\* a cost charged on entries only
TransactionCostOnEntry(sig, t, comm, slip) ==
    IF PositionChange(sig, t) > 0 THEN comm + slip ELSE 0

\* a cost that is also charged for closing a position held on the final date
TransactionCostWithFinalClose(sig, t, comm, slip) ==
    IF PositionChange(sig, t) > 0 \/ PositionChange(sig, t) < 0 \/ (t = Len(sig) /\ sig[t] = 1)
    THEN comm + slip ELSE 0

\* (commission + slippage) * (entries | exits).astype(float) at date t
TransactionCost(sig, t, comm, slip) ==
    IF PositionChange(sig, t) > 0 \/ PositionChange(sig, t) < 0 THEN comm + slip ELSE 0

\* a return earned with the exposure of the same date
StrategyReturnSameDay(cl, sig, t, comm, slip) ==
    sig[t] * AssetReturn(cl, t) - TransactionCost(sig, t, comm, slip)

\* signals.shift(1).fillna(0) * asset_returns - cost at date t
StrategyReturn(cl, sig, t, comm, slip) ==
    (IF t = 1 THEN 0 ELSE sig[t - 1]) * AssetReturn(cl, t) - TransactionCost(sig, t, comm, slip)

\* (1 + returns).cumprod() at date t, thousandths
RECURSIVE CumProd(_, _)
CumProd(ret, t) ==
    IF t = 1 THEN Unit + ret[1] ELSE RDiv(CumProd(ret, t - 1) * (Unit + ret[t]), Unit)

SimulatePortfolio(cl, sigIn, capital, comm, slip) ==
    LET n   == Len(cl)
        sig == [t \in 1..n |-> FillNa(sigIn[t], 0)]
        sr  == [t \in 1..n |-> StrategyReturn(cl, sig, t, comm, slip)]
    IN  [t \in 1..n |->
           [date |-> t,
            close |-> cl[t],
            position |-> sig[t],
            asset_return |-> AssetReturn(cl, t),
            strategy_return |-> sr[t],
            portfolio_value |-> RDiv(capital * CumProd(sr, t), Unit),
            is_entry |-> PositionChange(sig, t) > 0,
            is_exit |-> PositionChange(sig, t) < 0]]

----------------------------------------------------------------------------
\* BacktestEngine._build_trade_log (backtester.py)

\* entry_date = None
NoDate == 0

\* round(float(price), 6) of a price in ten-millionths: to the nearest
\* millionth, ties to even
Round6(x) ==
    LET r    == x % 10
        down == x - r
    IN  IF r < 5 THEN down
        ELSE IF r > 5 THEN down + 10
        ELSE IF (down \div 10) % 2 = 0 THEN down ELSE down + 10

\* a return taken relative to the exit price
TradeReturnOnExit(entry, exit) == RDiv((exit - entry) * 1000000, exit)

\* (exit - entry) / entry rounded to 6 places, millionths
TradeReturn(entry, exit) == RDiv((exit - entry) * 1000000, entry)

Trade(entry_date, entry_price, exit_date, exit_price) ==
    [entry_date |-> entry_date,
     exit_date |-> exit_date,
     entry_price |-> Round6(entry_price),
     exit_price |-> Round6(exit_price),
     return |-> TradeReturn(entry_price, exit_price),
     duration_days |-> exit_date - entry_date,
     profitable |-> exit_price - entry_price > 0]

\* the loop's variables after the rows 1..i
RECURSIVE TradeScan(_, _)
TradeScan(pf, i) ==
    IF i = 0 THEN [entry_date |-> NoDate, entry_price |-> 0, trades |-> <<>>]
    ELSE LET st  == TradeScan(pf, i - 1)
             row == pf[i]
         IN  IF row.is_entry /\ st.entry_date = NoDate
             THEN [st EXCEPT !.entry_date = row.date, !.entry_price = row.close]
             ELSE IF row.is_exit /\ st.entry_date # NoDate
             THEN [entry_date |-> NoDate, entry_price |-> 0,
                   trades |-> Append(st.trades,
                                     Trade(st.entry_date, st.entry_price, row.date, row.close))]
             ELSE st

\* the loop alone: a position still open at the end of the data is dropped
BuildTradeLogNoForceClose(pf) == TradeScan(pf, Len(pf)).trades

\* a log that lists the close of a position still open at the end first
BuildTradeLogForcedFirst(pf) ==
    LET st == TradeScan(pf, Len(pf))
    IN  IF st.entry_date # NoDate
        THEN <<Trade(st.entry_date, st.entry_price, pf[Len(pf)].date, pf[Len(pf)].close)>>
                 \o st.trades
        ELSE st.trades

\* the loop, then the close of a position still open at the end of the data
BuildTradeLog(pf) ==
    LET st == TradeScan(pf, Len(pf))
    IN  IF st.entry_date # NoDate
        THEN Append(st.trades,
                    Trade(st.entry_date, st.entry_price, pf[Len(pf)].date, pf[Len(pf)].close))
        ELSE st.trades


----------------------------------------------------------------------------
\* BacktestEngine._get_benchmark_returns and _compute_metrics (backtester.py),
\* result_to_response (api/backtest.py).  The statistics that need roots or
\* powers (annualized return, volatility, Sharpe, Sortino, Calmar) are not
\* computed here.

\* bench_prices["close"].pct_change().fillna(0); the empty Series when the
\* price fetch raised
GetBenchmarkReturns(bp) ==
    [i \in 1..Len(bp) |->
        [date |-> bp[i].date,
         ret  |-> IF i = 1 THEN 0 ELSE RDiv((bp[i].close - bp[i - 1].close) * Unit, bp[i - 1].close)]]

\* a reindex that fills the dates the benchmark lacks with 1 instead of 0
AlignedBenchFillOne(br, d) ==
    LET at == {i \in 1..Len(br) : br[i].date = d}
    IN  IF at = {} THEN Unit ELSE br[CHOOSE i \in at : TRUE].ret

\* benchmark_returns.reindex(pv.index).fillna(0) at date d
AlignedBench(br, d) ==
    LET at == {i \in 1..Len(br) : br[i].date = d}
    IN  IF at = {} THEN 0 ELSE br[CHOOSE i \in at : TRUE].ret

\* round(x, 2) of an amount in thousandths: to the nearest hundredth, ties to even
Round2(x) ==
    LET r    == x % 10
        down == x - r
    IN  IF r < 5 THEN down
        ELSE IF r > 5 THEN down + 10
        ELSE IF (down \div 10) % 2 = 0 THEN down ELSE down + 10

\* a reference level that stays at the first equity value
RollingMaxIsFirst(pf, t) == pf[1].portfolio_value

\* pv.cummax() at date t
RollingMax(pf, t) == SetMax({pf[i].portfolio_value : i \in 1..t})

RECURSIVE SumSeq(_, _)
SumSeq(s, i) == IF i = 0 THEN 0 ELSE s[i] + SumSeq(s, i - 1)

\* the largest rise over the running minimum, in the place of the largest
\* fall under the running maximum
LargestRunup(pf) ==
    SetMax({RDiv((pf[t].portfolio_value - SetMin({pf[i].portfolio_value : i \in 1..t})) * Unit,
                 SetMin({pf[i].portfolio_value : i \in 1..t})) : t \in 1..Len(pf)})

\* ((pv - rolling_max) / rolling_max).min()
MaxDrawdown(pf) ==
    SetMin({RDiv((pf[t].portfolio_value - RollingMax(pf, t)) * Unit, RollingMax(pf, t)) :
               t \in 1..Len(pf)})

\* a win rate that counts every trade as profitable
WinRateOfAll(trades) == IF trades # <<>> THEN Unit ELSE 0

\* sum(1 for t in trades if t["profitable"]) / len(trades) if trades else 0.0
WinRate(trades) ==
    LET wins == Cardinality({i \in 1..Len(trades) : trades[i].profitable})
    IN  IF trades # <<>> THEN RDiv(wins * Unit, Len(trades)) ELSE 0

\* np.mean([t["duration_days"] for t in trades]) if trades else 0.0
AvgTradeDuration(trades) ==
    IF trades # <<>>
    THEN RDiv(SumSeq([i \in 1..Len(trades) |-> trades[i].duration_days], Len(trades)) * Unit,
              Len(trades))
    ELSE 0

ComputeMetrics(key, pf, br, capital) ==
    LET n       == Len(pf)
        trades  == BuildTradeLog(pf)
        aligned == [t \in 1..n |-> AlignedBench(br, pf[t].date)]
    IN  [strategy_name |-> StrategyName(key),
         strategy_params |-> StrategyParams(key),
         start_date |-> pf[1].date,
         end_date |-> pf[n].date,
         initial_capital |-> capital,
         total_return |-> RDiv(pf[n].portfolio_value * Unit, capital) - Unit,
         benchmark_return |-> CumProd(aligned, n) - Unit,
         max_drawdown |-> MaxDrawdown(pf),
         win_rate |-> WinRate(trades),
         total_trades |-> Len(trades),
         avg_trade_duration_days |-> AvgTradeDuration(trades),
         equity_curve |-> [t \in 1..n |->
             [date |-> pf[t].date,
              value |-> Round2(pf[t].portfolio_value),
              benchmark_value |-> Round2(RDiv(capital * CumProd(aligned, t), Unit))]],
         trade_log |-> trades]

\* BacktestResponse: the result's fields and alpha
ResultToResponse(r) ==
    [strategy_name |-> r.strategy_name,
     strategy_params |-> r.strategy_params,
     start_date |-> r.start_date,
     end_date |-> r.end_date,
     initial_capital |-> r.initial_capital,
     total_return |-> r.total_return,
     benchmark_return |-> r.benchmark_return,
     alpha |-> r.total_return - r.benchmark_return,
     max_drawdown |-> r.max_drawdown,
     win_rate |-> r.win_rate,
     total_trades |-> r.total_trades,
     avg_trade_duration_days |-> r.avg_trade_duration_days,
     equity_curve |-> r.equity_curve,
     trade_log |-> r.trade_log]

----------------------------------------------------------------------------
\* The entry points: IngestionService.get_price_dataframe (ingestion.py),
\* BacktestEngine.run (backtester.py), run_backtest and compare_strategies
\* (api/backtest.py).  Here a price history is its dates, day 1 being
\* 2021-12-31, and a run's result is its strategy and the Sharpe ratio the
\* metrics stage gave it.

Coins == {"bitcoin", "solana"}

MIN_ROWS == 30

\* date_type(2022, 1, 1), compare_strategies' start when none is given
DEFAULT_START == 1 + 1

\* date_type.today(), compare_strategies' end when none is given: no row is later
Today == MaxRows + 1

\* STRATEGY_MAP.values(), in the dict's order
STRATEGY_ORDER == <<"composite", "rsi", "golden_cross", "fear_greed">>

Raised(exc, detail) == [raised |-> exc, detail |-> detail, index |-> {}]

\* the dates of the rows the query returns
GetPriceDataframe(coins, rowsOf, coin, start, end) ==
    LET rows == {d \in 1..(IF coin \in coins THEN rowsOf[coin] ELSE 0) :
                    /\ start = NoDate \/ d >= start
                    /\ end = NoDate \/ d <= end}
    IN  IF coin \notin coins THEN Raised("ValueError", "not found")
        ELSE IF rows = {} THEN Raised("ValueError", "no price data")
        ELSE [raised |-> "none", detail |-> "", index |-> rows]

\* a guard that also turns away a history of exactly MIN_ROWS rows
NotEnoughDataInclusive(n) == n <= MIN_ROWS

\* len(prices) < 30
NotEnoughData(n) == n < MIN_ROWS

\* BacktestEngine.run up to the metrics: what it raises, "none" for a result.
\* fgdf is the frame fetch_fear_greed returned to this run.
EngineRun(coins, rowsOf, coin, key, start, end, fgdf) ==
    LET prices  == GetPriceDataframe(coins, rowsOf, coin, start, end)
        kept    == {d \in prices.index : /\ start = NoDate \/ d >= start
                                         /\ end = NoDate \/ d <= end}
        columns == SignalColumns(fgdf) \cup {"composite_score"}
    IN  IF prices.raised # "none" THEN prices
        ELSE IF NotEnoughData(Cardinality(kept)) THEN Raised("ValueError", "not enough data")
        ELSE IF RaisesKeyError(key, [cols |-> columns]) THEN Raised("KeyError", "fear_greed_index")
        ELSE [raised |-> "none", detail |-> "", index |-> kept]

\* a selection that benchmarks every asset against bitcoin
BenchIdAlwaysBitcoin(coin) == "bitcoin"

\* bench_id = "bitcoin" if coingecko_id != "bitcoin" else "ethereum"
BenchId(coin) == IF coin # "bitcoin" THEN "bitcoin" ELSE "ethereum"

NoBenchmark == [id |-> "none", rows |-> 0]

\* _get_benchmark_returns for a run over the dates `index`: the asset asked
\* for and the rows its return series has (none when the fetch raised)
BenchmarkOf(coins, rowsOf, coin, index) ==
    IF index = {} THEN NoBenchmark
    ELSE LET bench_prices == GetPriceDataframe(coins, rowsOf, BenchId(coin),
                                               SetMin(index), SetMax(index))
         IN  [id |-> BenchId(coin), rows |-> Cardinality(bench_prices.index)]

\* what fetch_fear_greed returns: the empty frame when the fetch failed
FetchFearGreed(failed) ==
    IF failed THEN <<>> ELSE <<[date |-> 1, value |-> 50, label |-> "Neutral"]>>

Item(key, sharpe) == [strategy_name |-> StrategyName(key), sharpe_ratio |-> sharpe]

\* run_backtest's response
RunBacktestResponse(coins, rowsOf, req, sharpe) ==
    IF req.strategy \notin Variants
    THEN [status |-> 400, detail |-> "unknown strategy", results |-> <<>>,
          benchmark |-> NoBenchmark]
    ELSE LET r == EngineRun(coins, rowsOf, req.coin, req.strategy, req.start, req.end,
                            FetchFearGreed(req.strategy \in req.fg_failed))
         IN  IF r.raised = "none"
             THEN [status |-> 200, detail |-> "", results |-> <<Item(req.strategy, sharpe)>>,
                   benchmark |-> BenchmarkOf(coins, rowsOf, req.coin, r.index)]
             ELSE IF r.raised = "ValueError"
             THEN [status |-> 404, detail |-> r.detail, results |-> <<>>, benchmark |-> NoBenchmark]
             ELSE [status |-> 500, detail |-> "backtest failed", results |-> <<>>,
                   benchmark |-> NoBenchmark]

\* a loop without the try: a variant that raises leaves no results at all
RECURSIVE CompareLoopNoCatch(_, _, _, _, _)
CompareLoopNoCatch(coins, rowsOf, req, sharpe, i) ==
    IF i = 0 THEN <<>>
    ELSE LET prev == CompareLoopNoCatch(coins, rowsOf, req, sharpe, i - 1)
             key  == STRATEGY_ORDER[i]
             r    == EngineRun(coins, rowsOf, req.coin, key, req.start, req.end,
                               FetchFearGreed(key \in req.fg_failed))
         IN  IF r.raised = "none" /\ Len(prev) = i - 1 THEN Append(prev, Item(key, sharpe[key]))
             ELSE <<>>

\* `results` after the loop body ran for the first i variants: a variant that
\* raises is skipped
RECURSIVE CompareLoop(_, _, _, _, _)
CompareLoop(coins, rowsOf, req, sharpe, i) ==
    IF i = 0 THEN <<>>
    ELSE LET prev == CompareLoop(coins, rowsOf, req, sharpe, i - 1)
             key  == STRATEGY_ORDER[i]
             r    == EngineRun(coins, rowsOf, req.coin, key, req.start, req.end,
                               FetchFearGreed(key \in req.fg_failed))
         IN  IF r.raised = "none" THEN Append(prev, Item(key, sharpe[key])) ELSE prev

\* a sort without reverse=True
RECURSIVE SortBySharpeAscending(_)
SortBySharpeAscending(rs) ==
    IF rs = <<>> THEN <<>>
    ELSE LET sorted == SortBySharpeAscending(SubSeq(rs, 1, Len(rs) - 1))
             r      == rs[Len(rs)]
             k      == Cardinality({i \in 1..Len(sorted) : sorted[i].sharpe_ratio <= r.sharpe_ratio})
         IN  SubSeq(sorted, 1, k) \o <<r>> \o SubSeq(sorted, k + 1, Len(sorted))

\* results.sort(key=lambda r: r.sharpe_ratio, reverse=True): stable, so each
\* item goes behind the items that are not smaller
RECURSIVE SortBySharpe(_)
SortBySharpe(rs) ==
    IF rs = <<>> THEN <<>>
    ELSE LET sorted == SortBySharpe(SubSeq(rs, 1, Len(rs) - 1))
             r      == rs[Len(rs)]
             k      == Cardinality({i \in 1..Len(sorted) : sorted[i].sharpe_ratio >= r.sharpe_ratio})
         IN  SubSeq(sorted, 1, k) \o <<r>> \o SubSeq(sorted, k + 1, Len(sorted))

\* compare_strategies' response; start and end are the dates it passes on
CompareResponse(coins, rowsOf, req, sharpe) ==
    LET run     == [req EXCEPT !.start = IF req.start = NoDate THEN DEFAULT_START ELSE req.start,
                               !.end   = IF req.end = NoDate THEN Today ELSE req.end]
        results == CompareLoop(coins, rowsOf, run, sharpe, Len(STRATEGY_ORDER))
        prices  == GetPriceDataframe(coins, rowsOf, run.coin, run.start, run.end)
    IN  IF results = <<>>
        THEN [status |-> 500, detail |-> "all strategies failed", results |-> <<>>,
              benchmark |-> NoBenchmark]
        ELSE [status |-> 200, detail |-> "", results |-> SortBySharpe(results),
              benchmark |-> BenchmarkOf(coins, rowsOf, run.coin, prices.index)]

NoRequest == [call |-> "none"]

NoResponse == [status |-> 0, detail |-> "", results |-> <<>>, benchmark |-> NoBenchmark]

----------------------------------------------------------------------------
\* Inputs of a run

\* what one date can look like: the ta outputs of that date and the sentiment
\* reading published that date (NaN: none).  Warm-up dates have no indicator.
Warm     == [rsi_14 |-> NaN, macd_hist |-> NaN, bb_pct |-> NaN, sma_50 |-> NaN, sma_200 |-> NaN, fg |-> NaN]

WarmFear == [rsi_14 |-> NaN, macd_hist |-> NaN, bb_pct |-> NaN, sma_50 |-> NaN, sma_200 |-> NaN, fg |-> 10]

Bull     == [rsi_14 |-> 20, macd_hist |-> 4, bb_pct |-> 50, sma_50 |-> 60, sma_200 |-> 50, fg |-> NaN]

BullFear == [rsi_14 |-> 20, macd_hist |-> 4, bb_pct |-> 50, sma_50 |-> 60, sma_200 |-> 50, fg |-> 10]

Neutral  == [rsi_14 |-> 50, macd_hist |-> 0, bb_pct |-> 500, sma_50 |-> 50, sma_200 |-> 50, fg |-> 50]

Bear     == [rsi_14 |-> 80, macd_hist |-> 0 - 4, bb_pct |-> 950, sma_50 |-> 50, sma_200 |-> 60, fg |-> 90]

RowKinds == {Warm, WarmFear, Bull, BullFear, Neutral, Bear}

\* the kinds on which every variant's reading moves
ActiveKinds == {BullFear, Neutral, Bear}

Closes == {50, 60}

\* closes of 0.4 that differ in the seventh decimal
FineCloses == {4000000, 4000001}

\* (commission, slippage): none, and the request's defaults 0.001 + 0.001
Costs == {<<0, 0>>, <<1, 1>>}

Capitals == {10000, 10004}

\* the benchmark's price frame: the fetch failed, or one close per date
BenchFrames == {<<>>, [t \in Dates |-> [date |-> t, close |-> 50 + 10 * (t % 2)]]}

TaOf(kinds) ==
    [t \in 1..Len(kinds) |->
        [rsi_14 |-> kinds[t].rsi_14, macd_hist |-> kinds[t].macd_hist, bb_pct |-> kinds[t].bb_pct,
         sma_50 |-> kinds[t].sma_50, sma_200 |-> kinds[t].sma_200]]

\* value_classification of a reading, as the sentiment source names it
Classification(value) ==
    IF value < 25 THEN "Extreme Fear"
    ELSE IF value > 75 THEN "Extreme Greed"
    ELSE "Neutral"

\* the fetched sentiment frame, sorted by date: one reading per date that has one
RECURSIVE ReadingsOf(_, _)
ReadingsOf(kinds, i) ==
    IF i = 0 THEN <<>>
    ELSE IF kinds[i].fg = NaN THEN ReadingsOf(kinds, i - 1)
    ELSE Append(ReadingsOf(kinds, i - 1),
                [date |-> i, value |-> kinds[i].fg, label |-> Classification(kinds[i].fg)])

NoFrame == <<>>

\* the concurrent callers of get_or_create_coin
Procs == {"p1", "p2"}

\* coin = None
NoCoin == [coingecko_id |-> "none"]

\* a caller outside get_or_create_coin
IdleProc == [pc |-> "idle", arg |-> "", coin |-> NoCoin, returns |-> NoCoin, raised |-> "none"]

NoResult == [strategy_name |-> "none"]

InputsFrom(kindSet, closeSet, costSet, capitalSet, benchSet) ==
    /\ strategy \in Variants
    /\ \E kinds \in [Dates -> kindSet] :
          /\ ta = TaOf(kinds)
          /\ fear_greed = ReadingsOf(kinds, MaxLen)
    /\ close \in [Dates -> closeSet]
    /\ \E c \in costSet : commission = c[1] /\ slippage = c[2]
    /\ initial_capital \in capitalSet
    /\ bench \in benchSet

Init ==
    /\ pc = "start"
    /\ \/ InputsFrom(RowKinds, {50}, {<<1, 1>>}, {10000}, {<<>>})
       \/ InputsFrom(ActiveKinds, Closes, Costs, Capitals, BenchFrames)
       \/ InputsFrom(ActiveKinds, FineCloses, {<<0, 0>>}, {10000}, {<<>>})
    /\ signals_df = NoFrame
    /\ raw_signals = <<>>
    /\ portfolio = <<>>
    /\ result = NoResult
    /\ error = "none"
    /\ db_coins = {}
    /\ db_rows = [c \in Coins |-> 0]
    /\ request = NoRequest
    /\ response = NoResponse
    /\ class_params = [key \in Variants |-> StrategyParams(key)]
    /\ returned = <<>>
    /\ touched = 0
    /\ db_signals = {}
    /\ coin_table = <<>>
    /\ procs = [p \in Procs |-> IdleProc]

----------------------------------------------------------------------------
\* The stages of BacktestEngine.run

ComputeSignalsStep ==
    /\ pc = "start"
    /\ signals_df' = ComputeAllSignals(ta, fear_greed)
    /\ pc' = "signals"
    /\ UNCHANGED <<strategy, ta, fear_greed, close, initial_capital, commission, slippage,
                   bench, raw_signals, portfolio, result, error>>
    /\ UNCHANGED <<apiVars, heapVars, tableVars>>

GenerateSignalsStep ==
    /\ pc = "signals"
    /\ IF RaisesKeyError(strategy, signals_df)
       THEN /\ error' = "KeyError"
            /\ pc' = "failed"
            /\ UNCHANGED raw_signals
       ELSE /\ raw_signals' = GenerateSignals(strategy, signals_df)
            /\ pc' = "positions"
            /\ UNCHANGED error
    /\ UNCHANGED <<strategy, ta, fear_greed, close, initial_capital, commission, slippage,
                   bench, signals_df, portfolio, result>>
    /\ UNCHANGED <<apiVars, heapVars, tableVars>>

SimulatePortfolioStep ==
    /\ pc = "positions"
    /\ portfolio' = SimulatePortfolio(close, raw_signals, initial_capital, commission, slippage)
    /\ pc' = "portfolio"
    /\ UNCHANGED <<strategy, ta, fear_greed, close, initial_capital, commission, slippage,
                   bench, signals_df, raw_signals, result, error>>
    /\ UNCHANGED <<apiVars, heapVars, tableVars>>

ComputeMetricsStep ==
    /\ pc = "portfolio"
    /\ result' = ResultToResponse(
                    ComputeMetrics(strategy, portfolio, GetBenchmarkReturns(bench), initial_capital))
    /\ pc' = "done"
    /\ UNCHANGED <<strategy, ta, fear_greed, close, initial_capital, commission, slippage,
                   bench, signals_df, raw_signals, portfolio, error>>
    /\ UNCHANGED <<apiVars, heapVars, tableVars>>

Next ==
    \/ ComputeSignalsStep
    \/ GenerateSignalsStep
    \/ SimulatePortfolioStep
    \/ ComputeMetricsStep

Spec == Init /\ [][Next]_vars

----------------------------------------------------------------------------
\* The entry points over a seeded database

\* days of history one fetch_price_history leaves stored
SeedDays == (MIN_ROWS - 1)..MaxRows

\* requests name a seeded coin or one that was never ingested
RequestCoins == Coins \cup {"dogecoin"}

RequestStrategies == Variants \cup {"momentum"}

StartDates == {NoDate, 3}

EndDates == {NoDate, MIN_ROWS + 1}

\* the Sharpe ratios a run may come out with, in hundredths
SharpeValues == {0 - 50, 0, 120}

InitRun ==
    /\ pc = "api"
    /\ strategy = "composite"
    /\ ta = <<>>
    /\ fear_greed = <<>>
    /\ close = <<>>
    /\ initial_capital = 10000
    /\ commission = 1
    /\ slippage = 1
    /\ bench = <<>>
    /\ signals_df = NoFrame
    /\ raw_signals = <<>>
    /\ portfolio = <<>>
    /\ result = NoResult
    /\ error = "none"
    /\ db_coins = {}
    /\ db_rows = [c \in Coins |-> 0]
    /\ request = NoRequest
    /\ response = NoResponse
    /\ class_params = [key \in Variants |-> StrategyParams(key)]
    /\ returned = <<>>
    /\ touched = 0
    /\ db_signals = {}
    /\ coin_table = <<>>
    /\ procs = [p \in Procs |-> IdleProc]

\* get_or_create_coin, called for a coin not yet stored
GetOrCreateCoin ==
    \E c \in Coins \ db_coins :
        /\ request = NoRequest
        /\ db_coins' = db_coins \cup {c}
        /\ request' = NoRequest
        /\ response' = NoResponse
        /\ UNCHANGED <<db_rows, stageVars, heapVars, tableVars>>

\* fetch_price_history: the stored history of the coin grows to `days` rows
FetchPriceHistory ==
    \E c \in db_coins, days \in SeedDays :
        /\ request = NoRequest
        /\ days > db_rows[c]
        /\ db_rows' = [db_rows EXCEPT ![c] = days]
        /\ request' = NoRequest
        /\ response' = NoResponse
        /\ UNCHANGED <<db_coins, stageVars, heapVars, tableVars>>

\* POST /backtest
RunBacktest ==
    \E coin \in RequestCoins, key \in RequestStrategies, start \in StartDates, end \in EndDates,
       failed \in BOOLEAN, sharpe \in SharpeValues :
        LET req == [call |-> "run", coin |-> coin, strategy |-> key, start |-> start, end |-> end,
                    fg_failed |-> IF failed THEN {key} ELSE {}]
        IN  /\ request = NoRequest
            /\ request' = req
            /\ response' = RunBacktestResponse(db_coins, db_rows, req, sharpe)
            /\ UNCHANGED <<db_coins, db_rows, stageVars, heapVars, tableVars>>

\* POST /backtest/compare
CompareStrategies ==
    \E coin \in RequestCoins, start \in StartDates, end \in EndDates,
       failed \in SUBSET {"composite", "fear_greed"}, sharpe \in [Variants -> SharpeValues] :
        LET req == [call |-> "compare", coin |-> coin, strategy |-> "all", start |-> start,
                    end |-> end, fg_failed |-> failed]
        IN  /\ request = NoRequest
            /\ request' = req
            /\ response' = CompareResponse(db_coins, db_rows, req, sharpe)
            /\ UNCHANGED <<db_coins, db_rows, stageVars, heapVars, tableVars>>

\* the handler returns (or its HTTPException is sent): the call is over
ReturnResponse ==
    /\ request # NoRequest
    /\ request' = NoRequest
    /\ response' = NoResponse
    /\ UNCHANGED <<db_coins, db_rows, stageVars, heapVars, tableVars>>

NextRun ==
    \/ GetOrCreateCoin
    \/ FetchPriceHistory
    \/ RunBacktest
    \/ CompareStrategies
    \/ ReturnResponse

SpecRun == InitRun /\ [][NextRun]_vars



----------------------------------------------------------------------------
\* Runs made through BacktestEngine.run by a caller that keeps the results.
\* A strategy's `params` is a class attribute: every instance of the class,
\* and the strategy_params of every result of that class, name one dict.

SeriesA == [t \in Dates |-> IF t % 3 = 1 THEN BullFear ELSE IF t % 3 = 2 THEN Neutral ELSE Bear]

SeriesB == [t \in Dates |-> IF t % 2 = 0 THEN BullFear ELSE Neutral]

\* the inputs of a run: strategy, indicator and sentiment readings, closes
RunInputs ==
    {[strategy |-> key, kinds |-> kinds, close |-> [t \in Dates |-> 50 + 10 * (t % 2)]] :
        key \in Variants, kinds \in {SeriesA, SeriesB}}

\* a run that tunes its class's thresholds while it generates the exposure
ParamsTunedByRun(params, key) ==
    IF key = "rsi" THEN [params EXCEPT ![key] = [oversold |-> 10, overbought |-> 70]] ELSE params

\* the class dicts after a run of `key`: generate_signals and _compute_metrics
\* read self.params / strategy.params and assign nothing
ParamsAfterRun(params, key) == params

\* what a caller writes into the strategy_params of a result it holds
EditedParams(key, dict) ==
    CASE key = "composite" -> [dict EXCEPT !.buy_threshold = 900]
      [] key = "rsi" -> [dict EXCEPT !.oversold = 10]
      [] key = "golden_cross" -> [dict EXCEPT !.fast = 20]
      [] key = "fear_greed" -> [dict EXCEPT !.extreme_fear_buy = 5]

\* the result as its holder reads it: strategy_params=strategy.params stored
\* the class's dict itself, not a copy
ResultView(r) == [r.fields EXCEPT !.strategy_params = class_params[r.params_of]]

\* engine.run(...) with capital 10 and the default costs, stage by stage: the
\* result is created and handed to the caller
RunAndKeep ==
    \E inp \in RunInputs :
      \E df \in {ComputeAllSignals(TaOf(inp.kinds), ReadingsOf(inp.kinds, MaxLen))} :
        \E raw \in {GenerateSignalsWith(inp.strategy, df, class_params[inp.strategy])} :
          \E pf \in {SimulatePortfolio(inp.close, raw, 10000, 1, 1)} :
        /\ pc = "api"
        /\ Len(returned) < MaxRuns
        /\ returned' = Append(returned, [inputs |-> inp, params_of |-> inp.strategy,
                                        fields |-> ComputeMetrics(inp.strategy, pf, <<>>, 10000)])
        /\ class_params' = ParamsAfterRun(class_params, inp.strategy)
        /\ touched' = 0
        /\ UNCHANGED <<stageVars, apiVars, tableVars>>

\* a caller edits the strategy_params of one result it holds
EditResultParams ==
    \E i \in 1..Len(returned) :
        LET key == returned[i].params_of
        IN  /\ class_params[key] = StrategyParams(key)
            /\ class_params' = [class_params EXCEPT ![key] = EditedParams(key, class_params[key])]
            /\ touched' = i
            /\ UNCHANGED <<returned, stageVars, apiVars, tableVars>>

NextRepeat == RunAndKeep

SpecRepeat == InitRun /\ [][NextRepeat]_vars

NextShared ==
    \/ RunAndKeep
    \/ EditResultParams

SpecShared == InitRun /\ [][NextShared]_vars

----------------------------------------------------------------------------
\* SignalEngine.compute_and_store and get_signal_summary (signals.py) behind
\* their routes (api/signals.py), over short price histories.  Between two
\* runs the stored prices of a date may have been upserted again, so a run's
\* indicators are an input of each run.

\* a column value of a stored row that is NULL
Null == 0 - 888888

\* safe(val): None for None, NaN and infinities, the float otherwise
Safe(x) == IF x = NaN THEN Null ELSE x

\* safe(row.get(column)): row.get gives None for a column the frame lacks
SafeGet(df, col, t) == IF col \notin df.cols THEN Null ELSE Safe(df[col][t])

\* the columns of a stored row that the model follows
STORED_COLUMNS ==
    {"rsi_14", "macd_hist", "bb_pct", "sma_50", "sma_200", "fear_greed_index", "composite_score"}

\* the keys of on_conflict_do_update's set_
UPDATED_COLUMNS == {"rsi_14", "macd_hist", "bb_pct", "fear_greed_index", "composite_score"}

\* insert(CoinSignal).values(...).on_conflict_do_update(constraint=
\* "uq_cl_signal_coin_date", set_=...): a new row takes every value, a row
\* that exists for (coin, date) takes the values of set_ only
Upsert(table, coin, date, values) ==
    IF \E r \in table : r.coin = coin /\ r.date = date
    THEN {IF r.coin = coin /\ r.date = date
          THEN [r EXCEPT !.values = [col \in STORED_COLUMNS |->
                                        IF col \in UPDATED_COLUMNS THEN values[col]
                                        ELSE r.values[col]]]
          ELSE r : r \in table}
    ELSE table \cup {[coin |-> coin, date |-> date, values |-> values]}

\* the table after the loop over signals_df.iterrows() ran for the rows 1..i
RECURSIVE StoreRows(_, _, _, _)
StoreRows(table, coin, df, i) ==
    IF i = 0 THEN table
    ELSE Upsert(StoreRows(table, coin, df, i - 1), coin, i,
                [col \in STORED_COLUMNS |-> SafeGet(df, col, i)])

\* a label whose thresholds are inclusive
SignalLabelInclusive(score) ==
    IF score >= 500 THEN "STRONG BUY"
    ELSE IF score >= 150 THEN "BUY"
    ELSE IF score >= 0 - 150 THEN "NEUTRAL"
    ELSE IF score >= 0 - 500 THEN "SELL"
    ELSE "STRONG SELL"

\* `overall` of get_signal_summary for a score in thousandths
SignalLabel(score) ==
    IF score > 500 THEN "STRONG BUY"
    ELSE IF score > 150 THEN "BUY"
    ELSE IF score > 0 - 150 THEN "NEUTRAL"
    ELSE IF score > 0 - 500 THEN "SELL"
    ELSE "STRONG SELL"

\* GET /signals/{coingecko_id}: get_signal_summary reads the latest stored
\* row; a NULL score comes back as None and `score > 0.5` raises TypeError
SignalSummaryResponse(coins, table, coin) ==
    LET rows == {r \in table : r.coin = coin}
    IN  IF coin \notin coins THEN [status |-> 404, detail |-> "not found"]
        ELSE IF rows = {} THEN [status |-> 404, detail |-> "no signals"]
        ELSE LET row   == CHOOSE r \in rows : \A q \in rows : q.date <= r.date
                 score == row.values.composite_score
             IN  IF score = Null THEN [status |-> 500, detail |-> "TypeError"]
                 ELSE [status |-> 200, detail |-> "", signal |-> SignalLabel(score),
                       composite_score |-> score, date |-> row.date]

\* one date of a short history: indicator readings whose composite score is
\* 1, 0.5, 0.15, -0.15, -0.5 and -1, and a warm-up date
StoreStrongBuy == [rsi_14 |-> 20, macd_hist |-> 4, bb_pct |-> 99, sma_50 |-> 60, sma_200 |-> 50, fg |-> 10]

StoreBuy == [rsi_14 |-> 40, macd_hist |-> 4, bb_pct |-> 125, sma_50 |-> 60, sma_200 |-> 50, fg |-> NaN]

StoreNeutral == [rsi_14 |-> 40, macd_hist |-> 0, bb_pct |-> 100, sma_50 |-> 50, sma_200 |-> 50, fg |-> NaN]

StoreSell == [rsi_14 |-> 60, macd_hist |-> 0, bb_pct |-> 900, sma_50 |-> 50, sma_200 |-> 50, fg |-> NaN]

StoreStrongSell == [rsi_14 |-> 60, macd_hist |-> 0 - 4, bb_pct |-> 875, sma_50 |-> 50, sma_200 |-> 60, fg |-> NaN]

StoreCrash == [rsi_14 |-> 80, macd_hist |-> 0 - 4, bb_pct |-> 901, sma_50 |-> 50, sma_200 |-> 60, fg |-> 90]

StoreKinds == {StoreStrongBuy, StoreBuy, StoreNeutral, StoreSell, StoreStrongSell, StoreCrash, Warm}

\* days of history one short fetch_price_history leaves stored
StoreDays == (MaxLen - 1)..MaxLen

\* fetch_price_history with a small `days`
FetchShortHistory ==
    \E c \in db_coins, days \in StoreDays :
        /\ request = NoRequest
        /\ days > db_rows[c]
        /\ db_rows' = [db_rows EXCEPT ![c] = days]
        /\ request' = NoRequest
        /\ response' = NoResponse
        /\ UNCHANGED <<db_coins, stageVars, heapVars, tableVars>>

\* POST /signals/{coingecko_id}/compute
ComputeAndStore ==
    \E c \in RequestCoins, kind \in StoreKinds :
        /\ request = NoRequest
        /\ request' = [call |-> "compute_and_store", coin |-> c]
        /\ IF c \notin db_coins \/ GetPriceDataframe(db_coins, db_rows, c, NoDate, NoDate).raised # "none"
           THEN /\ response' = [status |-> 500, detail |-> "ValueError"]
                /\ UNCHANGED <<db_signals, signals_df>>
           ELSE \E df \in {ComputeAllSignals(TaOf([t \in 1..db_rows[c] |-> kind]),
                                              ReadingsOf([t \in 1..db_rows[c] |-> kind], db_rows[c]))} :
                /\ signals_df' = df
                /\ db_signals' = StoreRows(db_signals, c, df, db_rows[c])
                /\ response' = [status |-> 200, detail |-> "", rows_stored |-> db_rows[c]]
        /\ UNCHANGED <<pc, strategy, ta, fear_greed, close, initial_capital, commission, slippage,
                       bench, raw_signals, portfolio, result, error>>
        /\ UNCHANGED <<db_coins, db_rows, heapVars, coin_table, procs>>

\* GET /signals/{coingecko_id}
GetSignals ==
    \E c \in RequestCoins :
        /\ request = NoRequest
        /\ request' = [call |-> "get_signals", coin |-> c]
        /\ response' = SignalSummaryResponse(db_coins, db_signals, c)
        /\ UNCHANGED <<db_coins, db_rows, stageVars, heapVars, tableVars>>

\* the route returns: the call is over and its frame is gone
ReturnFromSignals ==
    /\ request # NoRequest
    /\ request' = NoRequest
    /\ response' = NoResponse
    /\ signals_df' = NoFrame
    /\ UNCHANGED <<pc, strategy, ta, fear_greed, close, initial_capital, commission, slippage,
                   bench, raw_signals, portfolio, result, error>>
    /\ UNCHANGED <<db_coins, db_rows, heapVars, tableVars>>

NextStore ==
    \/ GetOrCreateCoin
    \/ FetchShortHistory
    \/ ComputeAndStore
    \/ GetSignals
    \/ ReturnFromSignals

SpecStore == InitRun /\ [][NextStore]_vars

----------------------------------------------------------------------------
\* IngestionService.get_or_create_coin (ingestion.py) called by concurrent
\* requests (add_coin and seed_coin of api/coins.py run in worker threads,
\* each with a database session of its own).  A step is what one caller does
\* between two points where another caller can run.

\* the ids the callers pass
CoinArgs == {"bitcoin", "Bitcoin", "solana"}

\* coingecko_id.lower()
Lower(id) == IF id = "Bitcoin" THEN "bitcoin" ELSE id

\* coingecko_id.upper()[:10]
Upper(id) == IF id \in {"bitcoin", "Bitcoin"} THEN "BITCOIN" ELSE "SOLANA"

\* the Coin built from the metadata the provider returned
MetadataCoin(id) ==
    [coingecko_id |-> Lower(id),
     symbol |-> IF Lower(id) = "bitcoin" THEN "BTC" ELSE "SOL",
     name |-> IF Lower(id) = "bitcoin" THEN "Bitcoin" ELSE "Solana"]

\* the Coin built in the except branch
FallbackCoin(id) == [coingecko_id |-> Lower(id), symbol |-> Upper(id), name |-> id]

\* the committed row with that coingecko_id, NoCoin when there is none
\* (the column is unique)
CoinRow(table, id) ==
    IF \E i \in 1..Len(table) : table[i].coingecko_id = id
    THEN table[CHOOSE i \in 1..Len(table) : table[i].coingecko_id = id]
    ELSE NoCoin

\* a request calls get_or_create_coin(id)
CallGetOrCreate ==
    \E p \in Procs, id \in CoinArgs :
        /\ procs[p].pc = "idle"
        /\ procs' = [procs EXCEPT ![p] = [IdleProc EXCEPT !.pc = "query", !.arg = id]]
        /\ UNCHANGED <<stageVars, apiVars, heapVars, db_signals, coin_table>>

\* coin = self.db.query(Coin).filter(...).first(); if coin: return coin
QueryCoin ==
    \E p \in Procs :
        LET found == CoinRow(coin_table, Lower(procs[p].arg))
        IN  /\ procs[p].pc = "query"
            /\ procs' = [procs EXCEPT ![p] =
                             IF found # NoCoin
                             THEN [@ EXCEPT !.pc = "done", !.returns = found]
                             ELSE [@ EXCEPT !.pc = "fetch"]]
            /\ UNCHANGED <<stageVars, apiVars, heapVars, db_signals, coin_table>>

\* the metadata request, which may fail: coin = Coin(...)
FetchMetadata ==
    \E p \in Procs, ok \in BOOLEAN :
        /\ procs[p].pc = "fetch"
        /\ procs' = [procs EXCEPT ![p] =
                         [@ EXCEPT !.pc = "commit",
                                   !.coin = IF ok THEN MetadataCoin(procs[p].arg)
                                             ELSE FallbackCoin(procs[p].arg)]]
        /\ UNCHANGED <<stageVars, apiVars, heapVars, db_signals, coin_table>>

\* self.db.add(coin); self.db.commit(); refresh; return coin.  The INSERT
\* breaks the unique constraint on coingecko_id when another session has
\* committed the id meanwhile: commit raises IntegrityError
CommitCoin ==
    \E p \in Procs :
        /\ procs[p].pc = "commit"
        /\ IF CoinRow(coin_table, procs[p].coin.coingecko_id) # NoCoin
           THEN /\ procs' = [procs EXCEPT ![p] = [@ EXCEPT !.pc = "failed",
                                                            !.raised = "IntegrityError"]]
                /\ UNCHANGED coin_table
           ELSE /\ coin_table' = Append(coin_table, procs[p].coin)
                /\ procs' = [procs EXCEPT ![p] = [@ EXCEPT !.pc = "done", !.returns = procs[p].coin]]
        /\ UNCHANGED <<stageVars, apiVars, heapVars, db_signals>>

\* the request is answered (with the coin, or with the error of the route)
AnswerCoinRequest ==
    \E p \in Procs :
        /\ procs[p].pc \in {"done", "failed"}
        /\ procs' = [procs EXCEPT ![p] = IdleProc]
        /\ UNCHANGED <<stageVars, apiVars, heapVars, db_signals, coin_table>>

NextCoin ==
    \/ CallGetOrCreate
    \/ QueryCoin
    \/ FetchMetadata
    \/ CommitCoin
    \/ AnswerCoinRequest

SpecCoin == InitRun /\ [][NextCoin]_vars

----------------------------------------------------------------------------
\* Properties of the stages

Simulated == pc \in {"portfolio", "done"}

Positioned == pc \in {"positions", "portfolio", "done"}

Scored == pc # "start"

\* C1: for every run the first equity value equals initial_capital exactly,
\* also when the exposure is already 1 on the first date
C1_FirstEquityIsCapital ==
    Simulated => portfolio[1].portfolio_value = initial_capital

\* all four indicators of the scorer are missing on date t
AllMissing(t) ==
    /\ signals_df.rsi_14[t] = NaN
    /\ signals_df.macd_hist[t] = NaN
    /\ signals_df.bb_pct[t] = NaN
    /\ signals_df.fear_greed_index[t] = NaN

\* C2: the composite score is a defined number in [-1, 1] on every date,
\* warm-up dates included, and 0 on a date where every indicator is missing
C2_ScoreDefinedAndBounded ==
    Scored => \A t \in Dates :
        /\ signals_df.composite_score[t] # NaN
        /\ signals_df.composite_score[t] >= 0 - Unit
        /\ signals_df.composite_score[t] <= Unit
        /\ AllMissing(t) => signals_df.composite_score[t] = 0

\* the exposure of the date before t, 0 before the first date
PrevExposure(t) == IF t = 1 THEN 0 ELSE raw_signals[t - 1]

\* C3: CompositeThreshold has hysteresis: exposure 1 above 0.15, 0 below
\* -0.15, and the previous date's exposure inside the band
C3_CompositeHysteresis ==
    (Positioned /\ strategy = "composite") => \A t \in Dates :
        LET s == signals_df.composite_score[t]
        IN  /\ Gt(s, buy_threshold) => raw_signals[t] = 1
            /\ Lt(s, sell_threshold) => raw_signals[t] = 0
            /\ (s # NaN /\ s >= sell_threshold /\ s <= buy_threshold)
                   => raw_signals[t] = PrevExposure(t)


\* C5 as claimed: with the benchmark fetch failed, benchmark_return = 0,
\* alpha = total_return and benchmark_value = initial_capital on every point
C5_BenchmarkValueIsCapital ==
    (pc = "done" /\ bench = <<>>) =>
        /\ result.benchmark_return = 0
        /\ result.alpha = result.total_return
        /\ \A t \in Dates : result.equity_curve[t].benchmark_value = initial_capital

\* C5 amended: with the benchmark fetch failed the run is not ended by it
\* (the only failure is a strategy's KeyError), benchmark_return = 0,
\* alpha = total_return, and benchmark_value is initial_capital rounded to
\* two decimals on every point
C5_BenchmarkDegradesToZero ==
    bench = <<>> =>
        /\ pc # "failed" \/ error = "KeyError"
        /\ pc = "done" =>
              /\ error = "none"
              /\ result.benchmark_return = 0
              /\ result.alpha = result.total_return
              /\ \A t \in Dates :
                    result.equity_curve[t].benchmark_value = Round2(initial_capital)

C5_Witness ==
    /\ pc = "done"
    /\ bench = <<>>
    /\ initial_capital # Round2(initial_capital)
    /\ result.total_return # 0

\* the sentiment readings dated on or before t
TruncatedReadings(t) == SelectSeq(fear_greed, LAMBDA r : r.date <= t)

\* exposure[t] of the run on the series truncated at t; NaN when it raises
ExposureOnTruncated(t) ==
    LET df == ComputeAllSignals(SubSeq(ta, 1, t), TruncatedReadings(t))
    IN  IF RaisesKeyError(strategy, df) THEN NaN ELSE GenerateSignals(strategy, df)[t]

\* C6: for every variant and date t, the exposure computed on the series
\* truncated at t equals the exposure computed on the full series
C6_Causality ==
    Positioned => \A t \in Dates : ExposureOnTruncated(t) = raw_signals[t]

\* the dates of a 0 -> 1 transition; the exposure before the first date is 0
EntryDates == {t \in Dates : raw_signals[t] = 1 /\ PrevExposure(t) = 0}

\* the date of the first 1 -> 0 transition after e, the final date when none
ExitFor(e) ==
    LET later == {t \in Dates : t > e /\ raw_signals[t] = 0}
    IN  IF later = {} THEN MaxLen ELSE SetMin(later)

\* C10: the trade log holds exactly one trade per 0 -> 1 transition, opened
\* on its date and closed on the first later 1 -> 0 transition or on the
\* final date
C10_OneTradePerEntry ==
    pc = "done" =>
        LET log == result.trade_log
        IN  /\ Len(log) = Cardinality(EntryDates)
            /\ {log[i].entry_date : i \in 1..Len(log)} = EntryDates
            /\ \A i \in 1..Len(log) : log[i].exit_date = ExitFor(log[i].entry_date)

C10_Witness ==
    /\ pc = "done"
    /\ Len(result.trade_log) = 2
    /\ raw_signals[1] = 1
    /\ raw_signals[MaxLen] = 1
    /\ result.trade_log[2].exit_date = MaxLen

----------------------------------------------------------------------------
\* Properties of the entry points

\* the rows of the requested coin that pass the given date filters
UsableRows(coin, start, end) ==
    Cardinality({d \in 1..(IF coin \in db_coins THEN db_rows[coin] ELSE 0) :
                    /\ start = NoDate \/ d >= start
                    /\ end = NoDate \/ d <= end})

IsRun == request.call = "run" /\ request.strategy \in Variants

IsCompare == request.call = "compare"

InsufficientData == response.status = 404 /\ response.detail \in {"no price data", "not enough data"}

\* C4: with the sentiment fetch failed, run_backtest on a known asset with at
\* least 30 rows returns a result for every strategy variant
C4_SentimentFailureStillReturns ==
    (/\ IsRun
     /\ request.strategy \in request.fg_failed
     /\ request.coin \in db_coins
     /\ UsableRows(request.coin, request.start, request.end) >= MIN_ROWS)
    => (response.status = 200 /\ Len(response.results) = 1)

\* C7: a run on a known asset fails with InsufficientData, and gives no
\* result, exactly when fewer than 30 rows pass the start/end filters; exactly
\* 30 rows are accepted
C7_InsufficientDataBelowThirty ==
    (IsRun /\ request.coin \in db_coins)
    => /\ InsufficientData <=> UsableRows(request.coin, request.start, request.end) < MIN_ROWS
       /\ InsufficientData => response.results = <<>>
       /\ UsableRows(request.coin, request.start, request.end) = MIN_ROWS => response.status # 404

\* a run over exactly 30 filtered rows of a longer history gave a result, and
\* so the filter decided
C7_Witness ==
    /\ IsRun
    /\ request.coin \in db_coins
    /\ db_rows[request.coin] > MIN_ROWS
    /\ UsableRows(request.coin, request.start, request.end) = MIN_ROWS
    /\ response.status = 200

\* the dates compare_strategies passes to every run
CompareStart == IF request.start = NoDate THEN DEFAULT_START ELSE request.start

CompareEnd == IF request.end = NoDate THEN Today ELSE request.end

\* the variants whose run, made alone with the request's inputs, succeeds
Succeeding ==
    {key \in Variants :
        /\ request.coin \in db_coins
        /\ UsableRows(request.coin, CompareStart, CompareEnd) >= MIN_ROWS
        /\ ~(key = "fear_greed" /\ key \in request.fg_failed)}

ReturnedNames == {response.results[i].strategy_name : i \in 1..Len(response.results)}

\* C8: compare_strategies returns one result for exactly the variants whose
\* run succeeded, and the call fails if and only if every variant failed
C8_CompareOmitsFailedVariants ==
    IsCompare
    => /\ ReturnedNames = {StrategyName(key) : key \in Succeeding}
       /\ Len(response.results) = Cardinality(Succeeding)
       /\ response.status # 200 <=> Succeeding = {}
       /\ response.status \in {200, 500}

\* one variant failed and the other three are returned
C8_Witness ==
    /\ IsCompare
    /\ Cardinality(Succeeding) = 3
    /\ Len(response.results) = 3
    /\ response.status = 200

\* C9: the list compare_strategies returns is in descending order of
\* sharpe_ratio
C9_SortedBySharpeDescending ==
    IsCompare
    => \A i \in 1..(Len(response.results) - 1) :
           response.results[i].sharpe_ratio >= response.results[i + 1].sharpe_ratio

\* four results with three different ratios came back
C9_Witness ==
    /\ IsCompare
    /\ Len(response.results) = 4
    /\ response.results[1].sharpe_ratio > response.results[3].sharpe_ratio
    /\ response.results[3].sharpe_ratio > response.results[4].sharpe_ratio

----------------------------------------------------------------------------
\* Properties of the metrics and of the simulation

\* C11: max_drawdown is <= 0 for every run (positive initial capital, costs
\* below 100%)
C11_MaxDrawdownNotPositive ==
    pc = "done" => result.max_drawdown <= 0

\* a run whose equity fell below an earlier peak
C11_Witness ==
    /\ pc = "done"
    /\ result.max_drawdown < 0
    /\ \E t \in Dates : portfolio[t].portfolio_value > portfolio[MaxLen].portfolio_value

\* the trades of the log whose return is positive: the close of the exit
\* date is above the close of the entry date
WinningTrades ==
    {i \in 1..Len(result.trade_log) :
        portfolio[result.trade_log[i].exit_date].close
            > portfolio[result.trade_log[i].entry_date].close}

----------------------------------------------------------------------------
\* More properties of the entry points

\* the first and the last date of the prices a run of the request works on
FirstDate == IF request.start = NoDate THEN 1 ELSE request.start

LastDate ==
    IF request.end = NoDate \/ request.end > db_rows[request.coin]
    THEN db_rows[request.coin] ELSE request.end

----------------------------------------------------------------------------
\* Properties of repeated runs

C15_ResultsNeverChange ==
    [][\A i \in 1..Len(returned) :
          i # touched' => ResultView(returned[i])' = ResultView(returned[i])]_vars

----------------------------------------------------------------------------
\* Properties of the scorer, the costs and the strategies

\* per indicator: its reading on date t, its weight and its weighted sub-score
Terms(t) ==
    <<[reading |-> signals_df.rsi_14[t], weight |-> WEIGHT_RSI,
       term |-> NScale(RsiScore(signals_df.rsi_14[t]), WEIGHT_RSI)],
      [reading |-> signals_df.macd_hist[t], weight |-> WEIGHT_MACD,
       term |-> NScale(MacdScore(signals_df.macd_hist, t), WEIGHT_MACD)],
      [reading |-> signals_df.bb_pct[t], weight |-> WEIGHT_BB,
       term |-> NScale(BbScore(signals_df.bb_pct[t]), WEIGHT_BB)],
      [reading |-> signals_df.fear_greed_index[t], weight |-> WEIGHT_FG,
       term |-> NScale(FgScore(signals_df.fear_greed_index[t]), WEIGHT_FG)]>>

\* the sums over the indicators that have a reading on date t
AvailableWeight(t) ==
    SumSeq([i \in 1..4 |-> IF Terms(t)[i].reading # NaN THEN Terms(t)[i].weight ELSE 0], 4)

AvailableSum(t) ==
    SumSeq([i \in 1..4 |-> IF Terms(t)[i].reading # NaN THEN Terms(t)[i].term ELSE 0], 4)

\* the score the per-date rule gives on date t
PerDateScore(t) ==
    IF AvailableWeight(t) = 0 THEN 0
    ELSE Clip(RDiv(AvailableSum(t) * Unit, AvailableWeight(t)), 0 - Unit, Unit)

\* C16: on each date the composite score is the weighted sum of the
\* sub-scores of the indicators available that date over the sum of their
\* weights, clamped to [-1, 1]; a missing indicator is in neither sum
C16_PerDateWeights ==
    Scored => \A t \in Dates : signals_df.composite_score[t] = PerDateScore(t)

\* the exposure the portfolio held the date before t; flat before the first
PrevPosition(t) == IF t = 1 THEN 0 ELSE portfolio[t - 1].position

\* the cost taken out of the strategy return of date t
CostCharged(t) ==
    PrevPosition(t) * portfolio[t].asset_return - portfolio[t].strategy_return

\* the dates on which the exposure changed
FlipDates == {t \in Dates : portfolio[t].position # PrevPosition(t)}

\* C17: the cost of date t is commission + slippage if the exposure changed
\* on date t and 0 otherwise, so the dates charged are the exposure flips
C17_CostOnFlipsOnly ==
    Simulated =>
        /\ \A t \in Dates :
              CostCharged(t) = IF t \in FlipDates THEN commission + slippage ELSE 0
        /\ commission + slippage > 0 =>
              Cardinality({t \in Dates : CostCharged(t) > 0}) = Cardinality(FlipDates)

\* an exit after the first date was charged, and a date without a flip was not
C17_Witness ==
    /\ Simulated
    /\ commission + slippage > 0
    /\ \E t \in Dates : t > 1 /\ portfolio[t].position = 0 /\ PrevPosition(t) = 1
                          /\ CostCharged(t) = commission + slippage
    /\ \E t \in Dates : t \notin FlipDates /\ CostCharged(t) = 0

\* what the fixed-point equity can differ by from the exact product: half a
\* unit of the cumulative product times the capital, and two roundings
Slack == initial_capital \div Unit + 2

\* C18: for every date t after the first, equity[t] = equity[t-1] x
\* (1 + exposure[t-1] x asset_return[t] - cost[t]): the return of date t is
\* earned with the exposure of the date before, so an entry date changes the
\* equity by the cost only and an exit date still earns its asset return
C18_ReturnEarnedWithPreviousExposure ==
    Simulated => \A t \in Dates \ {1} :
        LET row  == portfolio[t]
            cost == IF t \in FlipDates THEN commission + slippage ELSE 0
        IN  /\ row.strategy_return = portfolio[t - 1].position * row.asset_return - cost
            /\ Abs(row.portfolio_value
                     - RDiv(portfolio[t - 1].portfolio_value * (Unit + row.strategy_return), Unit))
                   <= Slack
            /\ (row.position = 1 /\ portfolio[t - 1].position = 0) =>
                   row.strategy_return = 0 - (commission + slippage)
            /\ (row.position = 0 /\ portfolio[t - 1].position = 1) =>
                   row.strategy_return = row.asset_return - (commission + slippage)

\* an entry and an exit, each on a date whose close moved
C18_Witness ==
    /\ Simulated
    /\ \E t \in Dates \ {1} : /\ portfolio[t].position = 1
                                /\ portfolio[t - 1].position = 0
                                /\ portfolio[t].asset_return # 0
    /\ \E t \in Dates \ {1} : /\ portfolio[t].position = 0
                                /\ portfolio[t - 1].position = 1
                                /\ portfolio[t].asset_return # 0
                                /\ portfolio[t].portfolio_value # portfolio[t - 1].portfolio_value

\* the reading the two-state strategies look at on date t
Reading(t) ==
    IF strategy = "rsi" THEN signals_df.rsi_14[t] ELSE signals_df.fear_greed_index[t]

EntryLevel == IF strategy = "rsi" THEN oversold ELSE extreme_fear_buy

ExitLevel == IF strategy = "rsi" THEN overbought ELSE extreme_greed_sell

\* C19: RSIMeanReversion and the sentiment contrarian are two-state machines
\* starting FLAT: FLAT becomes LONG exactly on a reading below the entry
\* threshold, LONG becomes FLAT exactly on a reading above the exit
\* threshold, and on every other date the exposure is the previous date's
C19_TwoStateMachines ==
    (Positioned /\ strategy \in {"rsi", "fear_greed"}) => \A t \in Dates :
        IF PrevExposure(t) = 0
        THEN raw_signals[t] = 1 <=> Lt(Reading(t), EntryLevel)
        ELSE raw_signals[t] = 0 <=> Gt(Reading(t), ExitLevel)

\* a position entered, held on a reading between the thresholds, and left
C19_Witness ==
    /\ Positioned
    /\ strategy \in {"rsi", "fear_greed"}
    /\ raw_signals[1] = 1
    /\ raw_signals[2] = 1
    /\ ~Lt(Reading(2), EntryLevel)
    /\ \E t \in Dates : t > 2 /\ raw_signals[t] = 0

\* the reading of the run's variant is missing on date t
ReadingMissing(t) ==
    CASE strategy = "composite" -> signals_df.composite_score[t] = NaN
      [] strategy = "rsi" -> signals_df.rsi_14[t] = NaN
      [] strategy = "golden_cross" -> signals_df.sma_50[t] = NaN \/ signals_df.sma_200[t] = NaN
      [] strategy = "fear_greed" -> signals_df.fear_greed_index[t] = NaN

\* C20: for every variant, on a date whose reading is missing the exposure
\* is the previous date's (0 on the first date), and generating the
\* exposure never fails
C20_MissingReadingIsNeutral ==
    /\ pc # "failed"
    /\ Positioned => \A t \in Dates : ReadingMissing(t) => raw_signals[t] = PrevExposure(t)

----------------------------------------------------------------------------
\* Properties of the trade log

\* the closes of the dates trade i of the log was opened and closed on
EntryClose(i) == portfolio[result.trade_log[i].entry_date].close

ExitClose(i) == portfolio[result.trade_log[i].exit_date].close

\* C21 as claimed: every trade of the log has entry_price = the close of its
\* entry date, exit_price = the close of its exit date, return =
\* exit_price / entry_price - 1 (to the log's six decimals) and
\* profitable = (return > 0)
C21_TradeFieldsAreCloses ==
    pc = "done" => \A i \in 1..Len(result.trade_log) :
        LET tr == result.trade_log[i]
        IN  /\ tr.entry_price = EntryClose(i)
            /\ tr.exit_price = ExitClose(i)
            /\ 2 * Abs(tr.return * tr.entry_price - (tr.exit_price - tr.entry_price) * 1000000)
                   <= tr.entry_price
            /\ tr.profitable <=> tr.return > 0

\* C21 amended: entry_price and exit_price are the closes of the entry and
\* exit dates rounded to six decimals, return is (exit close - entry close) /
\* entry close of the unrounded closes rounded to six decimals, and
\* profitable says whether the exit close is above the entry close
C21_TradeFieldsAreRoundedCloses ==
    pc = "done" => \A i \in 1..Len(result.trade_log) :
        LET tr == result.trade_log[i]
        IN  /\ tr.entry_price = Round6(EntryClose(i))
            /\ tr.exit_price = Round6(ExitClose(i))
            /\ 2 * Abs(tr.return * EntryClose(i) - (ExitClose(i) - EntryClose(i)) * 1000000)
                   <= EntryClose(i)
            /\ tr.profitable <=> ExitClose(i) > EntryClose(i)

\* a 0 -> 1 -> 0 transition at closes 50 then 60 gave a trade with return 0.20
C21_Witness ==
    /\ pc = "done"
    /\ \E i \in 1..Len(result.trade_log) :
          /\ result.trade_log[i].exit_date < MaxLen
          /\ result.trade_log[i].entry_price = 50
          /\ result.trade_log[i].exit_price = 60
          /\ result.trade_log[i].return = 200000
          /\ result.trade_log[i].profitable

\* the RSI is below 30 on no date (a missing RSI is not below)
RsiNeverOversold == \A t \in Dates : ~Lt(signals_df.rsi_14[t], oversold)

\* C22: if the RSI never drops below 30, warm-up rows missing, the RSI
\* strategy's exposure is 0 on every date and the run reports equity =
\* initial_capital on every date (to the cent on the curve), total_return = 0,
\* total_trades = 0 and win_rate = 0
C22_FlatRunWhenRsiNeverOversold ==
    (Positioned /\ strategy = "rsi" /\ RsiNeverOversold) =>
        /\ \A t \in Dates : raw_signals[t] = 0
        /\ Simulated => \A t \in Dates : portfolio[t].portfolio_value = initial_capital
        /\ pc = "done" =>
              /\ \A t \in Dates : result.equity_curve[t].value = Round2(initial_capital)
              /\ result.total_return = 0
              /\ result.total_trades = 0
              /\ result.win_rate = 0

\* a finished RSI run on rising closes, with costs, whose RSI stayed at 50
\* and above
C22_Witness ==
    /\ pc = "done"
    /\ strategy = "rsi"
    /\ RsiNeverOversold
    /\ \A t \in Dates \ {1} : close[t] >= close[t - 1]
    /\ close[MaxLen] > close[1]
    /\ commission + slippage > 0
    /\ result.total_return = 0

----------------------------------------------------------------------------
\* More properties of the metrics

\* p is the largest equity value on or before date t
IsRunningMax(p, t) ==
    /\ \E i \in 1..t : portfolio[i].portfolio_value = p
    /\ \A i \in 1..t : portfolio[i].portfolio_value <= p

\* d is the drawdown of date t: (equity[t] - runningMax[t]) / runningMax[t]
IsDrawdown(d, t) ==
    \E i \in 1..t :
        /\ IsRunningMax(portfolio[i].portfolio_value, t)
        /\ d = RDiv((portfolio[t].portfolio_value - portfolio[i].portfolio_value) * Unit,
                    portfolio[i].portfolio_value)

\* the equity values of the scenario
ExampleEquity ==
    <<[portfolio_value |-> 10000], [portfolio_value |-> 10100],
      [portfolio_value |-> 9900], [portfolio_value |-> 10200]>>

\* C23: max_drawdown is the minimum over the dates t of
\* (equity[t] - runningMax[t]) / runningMax[t], runningMax[t] being the
\* largest equity value on or before t; the equity 10000, 10100, 9900, 10200
\* has the running maxima 10000, 10100, 10100, 10200 and max_drawdown
\* -200/10100
C23_MaxDrawdownIsDeepestFall ==
    /\ pc = "done" =>
          /\ \E t \in Dates : IsDrawdown(result.max_drawdown, t)
          /\ \A t \in Dates : \A i \in 1..t :
                IsRunningMax(portfolio[i].portfolio_value, t) =>
                    result.max_drawdown
                        <= RDiv((portfolio[t].portfolio_value - portfolio[i].portfolio_value) * Unit,
                                portfolio[i].portfolio_value)
    /\ [t \in 1..4 |-> RollingMax(ExampleEquity, t)] = <<10000, 10100, 10100, 10200>>
    /\ MaxDrawdown(ExampleEquity) = RDiv((0 - 200) * Unit, 10100)

\* the equity rose above its first value and then fell below that peak
C23_Witness ==
    /\ pc = "done"
    /\ portfolio[2].portfolio_value > portfolio[1].portfolio_value
    /\ portfolio[MaxLen].portfolio_value < portfolio[2].portfolio_value
    /\ result.max_drawdown < 0
    /\ IsDrawdown(result.max_drawdown, MaxLen)

----------------------------------------------------------------------------
\* Properties of the stored signals

\* C24: the signal label is a total function of the composite score with
\* strict thresholds: STRONG BUY iff score > 0.5, BUY iff 0.15 < score <= 0.5,
\* NEUTRAL iff -0.15 < score <= 0.15, SELL iff -0.5 < score <= -0.15,
\* STRONG SELL iff score <= -0.5; every score in [-1, 1] gets one label
C24_LabelByStrictThresholds ==
    request.call = "get_signals" =>
        /\ response.status = 200 =>
              LET score == response.composite_score
                  label == response.signal
              IN  /\ label \in {"STRONG BUY", "BUY", "NEUTRAL", "SELL", "STRONG SELL"}
                  /\ label = "STRONG BUY" <=> score > 500
                  /\ label = "BUY" <=> (150 < score /\ score <= 500)
                  /\ label = "NEUTRAL" <=> (0 - 150 < score /\ score <= 150)
                  /\ label = "SELL" <=> (0 - 500 < score /\ score <= 0 - 150)
                  /\ label = "STRONG SELL" <=> score <= 0 - 500
        /\ \A r \in db_signals :
              (/\ r.coin = request.coin
               /\ \A q \in db_signals : q.coin = r.coin => q.date <= r.date
               /\ r.values.composite_score \in (0 - Unit)..Unit)
              => (response.status = 200 /\ response.composite_score = r.values.composite_score)

\* a score of exactly 0.5 was labelled BUY
C24_Witness ==
    /\ request.call = "get_signals"
    /\ response.status = 200
    /\ response.composite_score = 500
    /\ response.signal = "BUY"

\* compute_and_store has just completed for the coin of the request
Stored == request.call = "compute_and_store" /\ response.status = 200

\* C29: after compute_and_store completes for a coin, every stored signal
\* row of that coin holds in every indicator column the value computed by
\* that run, rows that existed before the run included, and there is at most
\* one row per (coin, date)
C29_StoredRowsHoldComputedValues ==
    Stored =>
        /\ \A r \in db_signals : r.coin = request.coin =>
              /\ r.date \in 1..response.rows_stored
              /\ \A col \in STORED_COLUMNS : r.values[col] = SafeGet(signals_df, col, r.date)
        /\ \A t \in 1..response.rows_stored :
              \E r \in db_signals : r.coin = request.coin /\ r.date = t
        /\ \A r, q \in db_signals : (r.coin = q.coin /\ r.date = q.date) => r = q

----------------------------------------------------------------------------
\* Properties of the sentiment alignment

\* the readings dated on or before t
ReadingsUpTo(t) == {i \in 1..Len(fear_greed) : fear_greed[i].date <= t}

\* C25: for every price date d the aligned sentiment value and label are
\* those of the most recent reading dated on or before d; on a price date
\* earlier than the first reading the sentiment is missing, never taken from
\* a later reading and never zero
C25_SentimentAlignedToLatestReading ==
    (Scored /\ fear_greed # <<>>) => \A t \in Dates :
        IF ReadingsUpTo(t) = {}
        THEN /\ signals_df.fear_greed_index[t] = NaN
             /\ signals_df.fear_greed_label[t] = NoLabel
        ELSE \E i \in ReadingsUpTo(t) :
                /\ \A j \in ReadingsUpTo(t) : fear_greed[j].date <= fear_greed[i].date
                /\ signals_df.fear_greed_index[t] = fear_greed[i].value
                /\ signals_df.fear_greed_label[t] = fear_greed[i].label

\* the only reading is dated on the second date: the first date has no
\* sentiment and the last date carries the reading forward
C25_Witness ==
    /\ Scored
    /\ Len(fear_greed) = 1
    /\ fear_greed[1].date = 2
    /\ signals_df.fear_greed_index[1] = NaN
    /\ signals_df.fear_greed_index[MaxLen] = fear_greed[1].value
    /\ signals_df.fear_greed_label[MaxLen] = "Extreme Fear"

----------------------------------------------------------------------------
\* Properties of the Bollinger sub-score

\* the sub-score the claim gives a %B of x thousandths
PiecewiseBbScore(x) == IF x > 900 THEN 0 - Unit ELSE IF x < 100 THEN Unit ELSE 500 - x

\* the composite score of date t of the frame when the Bollinger term is the
\* claimed one
ScoreWithPiecewiseBb(t) ==
    LET sum == NScale(RsiScore(signals_df.rsi_14[t]), WEIGHT_RSI)
                 + NScale(MacdScore(signals_df.macd_hist, t), WEIGHT_MACD)
                 + NScale(PiecewiseBbScore(signals_df.bb_pct[t]), WEIGHT_BB)
                 + (IF "fear_greed_index" \in signals_df.cols
                    THEN NScale(FgScore(signals_df.fear_greed_index[t]), WEIGHT_FG) ELSE 0)
    IN  Clip(RDiv(sum * Unit, CompositeWeights(signals_df)), 0 - Unit, Unit)

\* the dates of the frame on which every indicator has a reading
FullDates == {t \in 1..Len(signals_df.rsi_14) : signals_df.composite_score[t] # NaN}

\* the scores of the frame are those of the piecewise sub-score
BbScoreIsPiecewise ==
    Stored => \A t \in FullDates : signals_df.composite_score[t] = ScoreWithPiecewiseBb(t)

\* some %B in [0.1, 0.9] has a linear term above 0.5 in magnitude
LinearTermCanExceedHalf == \E x \in 100..900 : Abs(BbScore(x)) > 500

\* every %B in [0.1, 0.9] has a linear term of at most 0.4 in magnitude
LinearTermWithinFourTenths == \A x \in 100..900 : Abs(BbScore(x)) <= 400

\* C26 as claimed: the Bollinger %B sub-score is -1 for %B > 0.9, +1 for
\* %B < 0.1 and 0.5 - %B in between, and the linear term used inside
\* [0.1, 0.9] can exceed 0.5 in magnitude near the 0.1 / 0.9 boundary
C26_BbLinearTermExceedsHalf ==
    /\ BbScoreIsPiecewise
    /\ LinearTermCanExceedHalf

\* C26 amended: the sub-score is -1 for %B > 0.9, +1 for %B < 0.1 and
\* 0.5 - %B in between; the linear term is at most 0.4 in magnitude, which
\* it reaches at the 0.1 / 0.9 boundary, where the sub-score jumps to 1 / -1
C26_BbLinearTermAtMostFourTenths ==
    /\ BbScoreIsPiecewise
    /\ LinearTermWithinFourTenths
    /\ BbScore(100) = 400 /\ BbScore(99) = Unit
    /\ BbScore(900) = 0 - 400 /\ BbScore(901) = 0 - Unit

\* a frame with a %B of exactly 0.1 was scored with the linear term 0.4
C26_Witness ==
    /\ Stored
    /\ \E t \in FullDates :
          /\ signals_df.bb_pct[t] = 100
          /\ signals_df.composite_score[t] = ScoreWithPiecewiseBb(t)
          /\ signals_df.composite_score[t] = 150

----------------------------------------------------------------------------
\* Properties of the order of the trades and of the forced close

\* trade i of the log was closed by the end of the data, not by an exit: the
\* run still holds the position on the date the trade ends
ForceClosed(i) == portfolio[result.trade_log[i].exit_date].position = 1

\* C27: the trades of a log are in chronological order and do not overlap:
\* entry_date <= exit_date and duration_days >= 0 for each trade, each
\* trade's exit_date is strictly before the next trade's entry_date, only the
\* last trade can be a force-closed one, and total_trades is the length of
\* trade_log
C27_TradesOrderedAndDisjoint ==
    pc = "done" =>
        LET log == result.trade_log
        IN  /\ \A i \in 1..Len(log) :
                  /\ log[i].entry_date <= log[i].exit_date
                  /\ log[i].duration_days >= 0
                  /\ log[i].duration_days = log[i].exit_date - log[i].entry_date
                  /\ ForceClosed(i) => i = Len(log)
            /\ \A i \in 1..(Len(log) - 1) : log[i].exit_date < log[i + 1].entry_date
            /\ result.total_trades = Len(log)

\* a trade closed by an exit, followed by one closed by the end of the data
C27_Witness ==
    /\ pc = "done"
    /\ Len(result.trade_log) = 2
    /\ ~ForceClosed(1)
    /\ ForceClosed(2)
    /\ result.trade_log[1].duration_days > 0
    /\ result.trade_log[1].exit_date < result.trade_log[2].entry_date

\* the dates whose strategy return was charged the cost of an entry / an exit
EntryCostDates ==
    {t \in Dates : portfolio[t].position = 1 /\ PrevPosition(t) = 0 /\ CostCharged(t) > 0}

ExitCostDates ==
    {t \in Dates : portfolio[t].position = 0 /\ PrevPosition(t) = 1 /\ CostCharged(t) > 0}

\* C28: a position still open on the final date is force-closed in the trade
\* log only: the equity curve is charged no cost for the forced close, so a
\* run that ends LONG has one more entry cost than exit costs, and an entry
\* on the final date gives a trade with duration 0, return 0 and
\* profitable = false
C28_ForcedCloseIsFree ==
    (pc = "done" /\ portfolio[MaxLen].position = 1) =>
        LET log  == result.trade_log
            last == log[Len(log)]
        IN  /\ log # <<>>
            /\ last.exit_date = MaxLen
            /\ CostCharged(MaxLen) =
                   IF PrevPosition(MaxLen) = 0 THEN commission + slippage ELSE 0
            /\ commission + slippage > 0 =>
                   (/\ Cardinality(EntryCostDates) = Cardinality(ExitCostDates) + 1
                    /\ Cardinality(EntryCostDates) = Len(log)
                    /\ \A t \in Dates : CostCharged(t) > 0 => t \in EntryCostDates \cup ExitCostDates)
            /\ PrevPosition(MaxLen) = 0 =>
                   (/\ last.entry_date = MaxLen
                    /\ last.duration_days = 0
                    /\ last.return = 0
                    /\ ~last.profitable)

\* a run with costs that held a position over the final date without paying
\* for its close, and whose close moved on that date
C28_Witness ==
    /\ pc = "done"
    /\ commission + slippage > 0
    /\ portfolio[MaxLen].position = 1
    /\ PrevPosition(MaxLen) = 1
    /\ CostCharged(MaxLen) = 0
    /\ portfolio[MaxLen].asset_return # 0
    /\ Cardinality(ExitCostDates) = 0

----------------------------------------------------------------------------
\* Properties of concurrent get_or_create_coin calls

\* the callers whose call has ended, and those among them that returned
Ended == {p \in Procs : procs[p].pc \in {"done", "failed"}}

\* the rows of cl_coins with that coingecko_id
RowsOf(id) == {i \in 1..Len(coin_table) : coin_table[i].coingecko_id = id}

\* C30: for any interleaving of two get_or_create_coin calls for the same
\* coingecko_id, also when the ids differ only in letter case, neither call
\* fails, both return the same coin record, and exactly one Coin row for the
\* lower-cased id exists afterwards
C30_ConcurrentGetOrCreateIsSafe ==
    \A p, q \in Ended :
        Lower(procs[p].arg) = Lower(procs[q].arg) =>
            /\ procs[p].raised = "none"
            /\ procs[p].pc = "done"
            /\ procs[p].returns = procs[q].returns
            /\ Cardinality(RowsOf(Lower(procs[p].arg))) = 1

====
